---------------------------- MODULE Spec2Model ----------------------------
(***************************************************************************)
(* Model of the Trace subsystem of tatorscout-utils (src/src/trace.ts):    *)
(* the base-52 codec, sparse/dense conversion, Trace.parse and             *)
(* Trace.serialize.                                                        *)
(*                                                                         *)
(* Representation of JavaScript values.                                    *)
(*   number     Num(w, f), the decimal w + f / Scale with 0 <= f < Scale;  *)
(*              NaN is its own value                                       *)
(*   string     Str(s), s the sequence of its characters, each a           *)
(*              one-character TLA+ string                                  *)
(*   array      Arr(items)                                                 *)
(*   object     Obj(state, trace): only these two keys are ever read       *)
(*   null, undefined                                                       *)
(* A point of a TraceArray (type P) is the tuple <<i, x, y, a>> with i an  *)
(* integer, x and y numbers and a either the number 0 or a string.         *)
(* A thrown exception is the value Throw(msg); a returned value v is       *)
(* Ok(v).                                                                  *)
(***************************************************************************)
EXTENDS Integers, Sequences, FiniteSets, TLC

VARIABLES pc, input, output, trace, wire

vars == <<pc, input, output, trace, wire>>

-----------------------------------------------------------------------------
(* Program constants *)

GRID_SIZE == 640

Base == 52

MaxCompressed == 999

Thousand == 1000

chars == << "A","B","C","D","E","F","G","H","I","J","K","L","M",
            "N","O","P","Q","R","S","T","U","V","W","X","Y","Z",
            "a","b","c","d","e","f","g","h","i","j","k","l","m",
            "n","o","p","q","r","s","t","u","v","w","x","y","z" >>

-----------------------------------------------------------------------------
(* JavaScript values *)

\* Decimal resolution of the modelled numbers: f counts units of 10^-8.
Scale == 10^8

Num(w, f) == [ty |-> "number", w |-> w, f |-> f]

NaN == [ty |-> "NaN"]

Str(s) == [ty |-> "string", s |-> s]

Arr(items) == [ty |-> "array", items |-> items]

Obj(state, tr) == [ty |-> "object", state |-> state, trace |-> tr]

Null == [ty |-> "null"]

Undefined == [ty |-> "undefined"]

Int0(n) == Num(n, 0)

Zero == Num(0, 0)

One == Num(1, 0)

IsNumber(v) == v.ty = "number"

IsInteger(v) == v.ty = "number" /\ v.f = 0

\* a <= b on numbers
NumLE(a, b) == a.w < b.w \/ (a.w = b.w /\ a.f <= b.f)

Ok(v) == [ok |-> TRUE, value |-> v]

Throw(msg) == [ok |-> FALSE, error |-> msg]

Min2(a, b) == IF a <= b THEN a ELSE b

SetMax(S) == CHOOSE m \in S : \A n \in S : n <= m

-----------------------------------------------------------------------------
(* Codec: numbers *)

\* chars.indexOf(c): the 0-based index of c in chars, -1 when absent
indexOf(c) ==
    IF \E k \in 1..Len(chars) : chars[k] = c
    THEN (CHOOSE k \in 1..Len(chars) : chars[k] = c) - 1
    ELSE -1

\* chars[k] for a 0-based k; undefined outside the alphabet
charAt(k) == IF k >= 0 /\ k < Len(chars) THEN chars[k + 1] ELSE "undefined"

compressNumNoUpperClamp(num) ==
    IF ~IsInteger(num) THEN Throw("Expected integer")
    ELSE LET n == IF num.w < 0 THEN 0 ELSE num.w
         IN  Ok(<<charAt(n \div Base), charAt(n % Base)>>)

compressNum(num) ==
    IF ~IsInteger(num) THEN Throw("Expected integer")
    ELSE LET n0 == IF num.w < 0 THEN 0 ELSE num.w
             n  == IF n0 > MaxCompressed THEN MaxCompressed ELSE n0
         IN  Ok(<<charAt(n \div Base), charAt(n % Base)>>)

decompressNumNoLengthCheck(str) ==
    LET firstCharIndex  == IF Len(str) >= 1 THEN indexOf(str[1]) ELSE -1
        secondCharIndex == IF Len(str) >= 2 THEN indexOf(str[2]) ELSE -1
    IN  IF firstCharIndex = -1 \/ secondCharIndex = -1
        THEN Throw("Invalid characters in compressed string")
        ELSE Ok(firstCharIndex * Base + secondCharIndex)

\* a decoder that reads a missing character as the digit 0
decompressNumPadding(str) ==
    LET firstCharIndex  == IF Len(str) >= 1 THEN indexOf(str[1]) ELSE 0
        secondCharIndex == IF Len(str) >= 2 THEN indexOf(str[2]) ELSE 0
    IN  IF firstCharIndex = -1 \/ secondCharIndex = -1
        THEN Throw("Invalid characters in compressed string")
        ELSE Ok(firstCharIndex * Base + secondCharIndex)

\* str is a sequence of characters; the result is a plain integer
decompressNum(str) ==
    IF Len(str) # 2 THEN Throw("Expected 2 characters")
    ELSE LET firstCharIndex  == indexOf(str[1])
             secondCharIndex == indexOf(str[2])
         IN  IF firstCharIndex = -1 \/ secondCharIndex = -1
             THEN Throw("Invalid characters in compressed string")
             ELSE Ok(firstCharIndex * Base + secondCharIndex)

-----------------------------------------------------------------------------
(* Strings as character sequences *)

\* s.slice(from, to) with 0-based from (inclusive) and to (exclusive)
slice(s, from, to) == SubSeq(s, from + 1, Min2(to, Len(s)))

\* the 1-based positions of the separator in s, ascending
sepPositions(s) ==
    LET isSep(k) == s[k] = ";"
    IN  SelectSeq([k \in 1..Len(s) |-> k], isSep)

\* s.split(';'): the fields between separators; always at least one field
split(s) ==
    LET seps == sepPositions(s)
        n    == Len(seps)
        from(k) == IF k = 1 THEN 1 ELSE seps[k - 1] + 1
        to(k)   == IF k = n + 1 THEN Len(s) ELSE seps[k] - 1
    IN  [k \in 1..(n + 1) |-> SubSeq(s, from(k), to(k))]

\* parts.slice(lo-1, hi).join(';')
RECURSIVE joinRange(_, _, _)
joinRange(parts, lo, hi) ==
    IF lo > hi THEN <<>>
    ELSE IF lo = hi THEN parts[lo]
    ELSE LET mid == (lo + hi) \div 2
         IN  joinRange(parts, lo, mid) \o <<";">> \o joinRange(parts, mid + 1, hi)

join(parts) == joinRange(parts, 1, Len(parts))

\* the results of mapping a throwing function over an array: the array of
\* values, or the first exception
collect(results) ==
    IF \E k \in 1..Len(results) : ~results[k].ok
    THEN LET k == CHOOSE k \in 1..Len(results) :
                      /\ ~results[k].ok
                      /\ \A j \in 1..(k - 1) : results[j].ok
         IN  results[k]
    ELSE Ok([k \in 1..Len(results) |-> results[k].value])

-----------------------------------------------------------------------------
(* Codec: points and traces *)

\* the action slot as text: (p[3] === 0 ? '0' : p[3])
actionText(a) == IF a = Zero THEN <<"0">> ELSE a.s

compressPoint(p) ==
    LET i == compressNum(Int0(p[1]))
        x == compressNum(p[2])
        y == compressNum(p[3])
    IN  IF ~i.ok THEN i
        ELSE IF ~x.ok THEN x
        ELSE IF ~y.ok THEN y
        ELSE Ok(i.value \o x.value \o y.value \o actionText(p[4]))

\* number of characters of num.toString() for an integer num >= 0
digitCount(num) == IF num < 10 THEN 1 ELSE IF num < 100 THEN 2
                   ELSE IF num < Thousand THEN 3 ELSE 4

\* fn of decompressPoint: both branches divide the integer by 1000
fn(num) ==
    IF digitCount(num) < 3
    THEN Num(0, num * (Scale \div Thousand))
    ELSE Num(num \div Thousand, (num % Thousand) * (Scale \div Thousand))

decompressPoint(p) ==
    LET i == decompressNum(slice(p, 0, 2))
        x == decompressNum(slice(p, 2, 4))
        y == decompressNum(slice(p, 4, 6))
        a == slice(p, 6, Len(p))
    IN  IF ~i.ok THEN i
        ELSE IF ~x.ok THEN x
        ELSE IF ~y.ok THEN y
        ELSE Ok(<<i.value, fn(x.value), fn(y.value),
                  IF a = <<"0">> THEN Zero ELSE Str(a)>>)

compress(tr) ==
    LET parts == collect([k \in 1..Len(tr) |-> compressPoint(tr[k])])
    IN  IF ~parts.ok THEN parts ELSE Ok(join(parts.value))

decompress(s) ==
    LET fields == split(s)
    IN  collect([k \in 1..Len(fields) |-> decompressPoint(fields[k])])

-----------------------------------------------------------------------------
(* Expander / Compactor *)

\* the keys of pointMap: the time indices present in tr
timeKeys(tr) == {tr[k][1] : k \in 1..Len(tr)}

\* a map whose set keeps the first point stored under a key
pointMapGetFirst(tr, i) ==
    tr[CHOOSE k \in 1..Len(tr) : tr[k][1] = i /\ \A j \in 1..(k - 1) : tr[j][1] # i]

\* pointMap.get(i): Map.set overwrites, so the last point of tr with
\* time index i
pointMapGet(tr, i) == tr[SetMax({k \in 1..Len(tr) : tr[k][1] = i})]

\* a scan that never finds an earlier point
lastKnownPointDefault(tr, i) == <<0, Zero, Zero, Zero>>

\* the last known point before time i: the downward scan j = i-1 .. 0
lastKnownPoint(tr, i) ==
    LET earlier == {j \in timeKeys(tr) : j >= 0 /\ j < i}
    IN  IF earlier = {} THEN <<0, Zero, Zero, Zero>>
        ELSE pointMapGet(tr, SetMax(earlier))

\* a loop that, of the points sharing a time index, pushes the last one
truncateKeepingLast(tr) ==
    LET pushed(k) == /\ tr[k][1] < GRID_SIZE
                     /\ \A j \in (k + 1)..Len(tr) : tr[j][1] # tr[k][1]
        kept == SelectSeq([k \in 1..Len(tr) |-> k], pushed)
    IN  [n \in 1..Min2(Len(kept), GRID_SIZE) |-> tr[kept[n]]]

\* the loop of the branch for more than GRID_SIZE points: a point is pushed
\* when its time index is unseen and below GRID_SIZE, until GRID_SIZE
\* points are collected
truncate(tr) ==
    LET pushed(k) == /\ tr[k][1] < GRID_SIZE
                     /\ \A j \in 1..(k - 1) : tr[j][1] # tr[k][1]
        kept == SelectSeq([k \in 1..Len(tr) |-> k], pushed)
    IN  [n \in 1..Min2(Len(kept), GRID_SIZE) |-> tr[kept[n]]]

\* a fill loop whose filler points carry the action of the last known point
fillCarryingAction(tr) ==
    LET keys == timeKeys(tr)
    IN  [n \in 1..GRID_SIZE |->
            LET i == n - 1
            IN  IF i \in keys THEN pointMapGet(tr, i)
                ELSE LET last == lastKnownPoint(tr, i)
                     IN  <<i, last[2], last[3], last[4]>>]

\* the fill loop for fewer than GRID_SIZE points
fill(tr) ==
    LET keys == timeKeys(tr)
    IN  [n \in 1..GRID_SIZE |->
            LET i == n - 1
            IN  IF i \in keys THEN pointMapGet(tr, i)
                ELSE LET last == lastKnownPoint(tr, i)
                     IN  <<i, last[2], last[3], Zero>>]

expand(tr) ==
    IF Len(tr) = GRID_SIZE THEN tr
    ELSE IF Len(tr) > GRID_SIZE THEN truncate(tr)
    ELSE fill(tr)

\* a loop iteration that compares only x with the last kept point
deExpandStepIgnoringY(st, point) ==
    IF /\ st.last # <<>>
       /\ point[2] = st.last[2]
       /\ point[4] = Zero
    THEN st
    ELSE [out |-> Append(st.out, point), last |-> point]

\* a loop iteration that does not push the first point
deExpandStepSkippingFirst(st, point) ==
    IF st.last = <<>>
    THEN [out |-> st.out, last |-> point]
    ELSE IF /\ point[2] = st.last[2]
            /\ point[3] = st.last[3]
            /\ point[4] = Zero
    THEN st
    ELSE [out |-> Append(st.out, point), last |-> point]

\* a loop iteration that does not look at the action
deExpandStepDroppingActions(st, point) ==
    IF /\ st.last # <<>>
       /\ point[2] = st.last[2]
       /\ point[3] = st.last[3]
    THEN st
    ELSE [out |-> Append(st.out, point), last |-> point]

\* one iteration of the loop of deExpand; st = [out, last], last = <<>>
\* standing for null
deExpandStep(st, point) ==
    IF /\ st.last # <<>>
       /\ point[2] = st.last[2]
       /\ point[3] = st.last[3]
       /\ point[4] = Zero
    THEN st
    ELSE [out |-> Append(st.out, point), last |-> point]

\* the loop over tr[lo..hi], left to right, from state st
RECURSIVE deExpandLoop(_, _, _, _)
deExpandLoop(tr, lo, hi, st) ==
    IF lo > hi THEN st
    ELSE IF lo = hi THEN deExpandStep(st, tr[lo])
    ELSE LET mid  == (lo + hi) \div 2
             left == deExpandLoop(tr, lo, mid, st)
         IN  \* the left half is evaluated before the right half is entered
             IF Len(left.out) >= 0 THEN deExpandLoop(tr, mid + 1, hi, left) ELSE st

deExpand(tr) == deExpandLoop(tr, 1, Len(tr), [out |-> <<>>, last |-> <<>>]).out

-----------------------------------------------------------------------------
(* Trace.convert *)

\* Math.min(Math.max(n, 0), 1) on a number
clamp01(n) == IF NumLE(n, Zero) THEN Zero ELSE IF NumLE(One, n) THEN One ELSE n

\* parseInt(str.slice(0, 3).padEnd(3, '0')) for str the text after the '.'
\* of n.toString(), 0 < n < 1, n = f / Scale.
\*  - n >= 1e-6 prints in fixed notation "0.ddd...": the first three decimals.
\*  - n < 1e-6 prints in exponent notation.  A one-digit mantissa ("5e-8")
\*    has no '.', str is undefined and str.slice throws a TypeError.  A
\*    two-digit mantissa "a.be-7" gives str = "be-7", sliced to "be-", which
\*    parseInt reads as b.
fractionDigits(f) ==
    IF f >= Scale \div 1000000 THEN Ok(f \div (Scale \div Thousand))
    ELSE IF f < 10 \/ f % 10 = 0 THEN Throw("TypeError: str is undefined")
    ELSE Ok(f % 10)

\* parseInt(c(n)) of Trace.convert
c(n) ==
    LET m == clamp01(n)
    IN  IF m = One THEN Ok(MaxCompressed)
        ELSE IF m = Zero THEN Ok(0)
        ELSE fractionDigits(m.f)

convertPoint(p) ==
    LET x == c(p[2])
        y == c(p[3])
    IN  IF ~x.ok THEN x
        ELSE IF ~y.ok THEN y
        ELSE Ok(<<p[1], Int0(x.value), Int0(y.value), p[4]>>)

convert(tr) ==
    LET hasDecimal == \E k \in 1..Len(tr) :
                          ~IsInteger(tr[k][2]) \/ ~IsInteger(tr[k][3])
    IN  IF ~hasDecimal THEN Ok(tr)
        ELSE collect([k \in 1..Len(tr) |-> convertPoint(tr[k])])

-----------------------------------------------------------------------------
(* TraceSchema *)

\* z.number().min(0).max(640).int()
validIndex(v) == IsInteger(v) /\ v.w >= 0 /\ v.w <= GRID_SIZE

\* z.number().min(0).max(1)
validCoordinate(v) == IsNumber(v) /\ NumLE(Zero, v) /\ NumLE(v, One)

\* z.union([z.string(), z.literal(0)])
validAction(v) == v.ty = "string" \/ v = Zero

\* z.tuple of four items: the array has exactly four elements
validTuple(v) ==
    /\ v.ty = "array"
    /\ Len(v.items) = 4
    /\ validIndex(v.items[1])
    /\ validCoordinate(v.items[2])
    /\ validCoordinate(v.items[3])
    /\ validAction(v.items[4])

\* TraceSchema.parse(v): the validated TraceArray, or a ZodError
TraceSchemaParse(v) ==
    IF v.ty # "array" THEN Throw("ZodError: expected array")
    ELSE IF \E k \in 1..Len(v.items) : ~validTuple(v.items[k])
    THEN Throw("ZodError: invalid point")
    ELSE Ok([k \in 1..Len(v.items) |->
                <<v.items[k].items[1].w, v.items[k].items[2],
                  v.items[k].items[3], v.items[k].items[4]>>])

\* a TraceArray as the JavaScript array of arrays it is
toJS(tr) == Arr([k \in 1..Len(tr) |-> Arr(<<Int0(tr[k][1]), tr[k][2], tr[k][3], tr[k][4]>>)])

-----------------------------------------------------------------------------
(* JSON text.  A JSON text is represented by what JSON.parse makes of it:   *)
(* the value it denotes, or a SyntaxError.  Of the values serialize writes  *)
(* (integers, strings, arrays, one object) JSON.parse(JSON.stringify(v))    *)
(* is v itself.                                                            *)

Text(v) == [ty |-> "string", denotes |-> Ok(v)]

MalformedText == [ty |-> "string", denotes |-> Throw("SyntaxError")]

JSONstringify(v) == Text(v)

JSONparse(text) == text.denotes

-----------------------------------------------------------------------------
(* Trace.parse, constructor, serialize *)

\* ToNumber of the argument of Math.max.  Inputs keep to the values on
\* which this table is exact: a string here is empty or holds no digit.
toNumber(v) ==
    CASE v.ty = "number"    -> v
      [] v.ty = "null"      -> Zero
      [] v.ty = "string"    -> IF v.s = <<>> THEN Zero ELSE NaN
      [] OTHER              -> NaN

\* clamp(num, 0, 1) of Trace.parse: Math.min(Math.max(num, 0), 1)
clamp(v) ==
    LET n == toNumber(v)
    IN  IF n = NaN THEN NaN ELSE clamp01(n)

\* ([i, x, y, a]) => [i, clamp(x, 0, 1), clamp(y, 0, 1), a]: the
\* destructuring reads the first four elements of an iterable (an array,
\* or the characters of a string) and throws a TypeError on anything else
clampItem(item) ==
    LET el(n) ==
            IF item.ty = "array"
            THEN IF n <= Len(item.items) THEN item.items[n] ELSE Undefined
            ELSE IF n <= Len(item.s) THEN Str(<<item.s[n]>>) ELSE Undefined
    IN  IF item.ty \notin {"array", "string"}
        THEN Throw("TypeError: not iterable")
        ELSE Ok(Arr(<<el(1), clamp(el(2)), clamp(el(3)), el(4)>>))

\* a constructor without the length check
newTraceUnchecked(points) == Ok(points)

\* new Trace(points)
newTrace(points) ==
    IF Len(points) # GRID_SIZE
    THEN Throw("Trace must have exactly 640 points")
    ELSE Ok(points)

\* the branch for a bare array
parseArray(parsed) ==
    LET mapped == collect([k \in 1..Len(parsed.items) |-> clampItem(parsed.items[k])])
    IN  IF ~mapped.ok THEN mapped
        ELSE LET checked == TraceSchemaParse(Arr(mapped.value))
             IN  IF ~checked.ok THEN checked
                 ELSE newTrace(expand(checked.value))

\* the branches for a tagged object
parseTagged(parsed) ==
    IF parsed.ty # "object" \/ parsed.state \notin {"compressed", "parsed", "expanded"}
    THEN Throw("ZodError: invalid state")
    ELSE IF parsed.state = "compressed"
    THEN IF parsed.trace.ty # "string"
         THEN Throw("TraceError: expected a string")
         ELSE LET decompressed == decompress(parsed.trace.s)
              IN  IF ~decompressed.ok THEN decompressed
                  ELSE newTrace(expand(decompressed.value))
    ELSE IF parsed.state = "parsed"
    THEN IF parsed.trace.ty # "array"
         THEN Throw("TraceError: expected an array")
         ELSE LET parsedTrace == TraceSchemaParse(parsed.trace)
              IN  IF ~parsedTrace.ok THEN parsedTrace
                  ELSE newTrace(expand(parsedTrace.value))
    ELSE IF parsed.trace.ty # "array"
         THEN Throw("TraceError: expected an array")
         ELSE LET expandedTrace == TraceSchemaParse(parsed.trace)
              IN  IF ~expandedTrace.ok THEN expandedTrace
                  ELSE newTrace(expandedTrace.value)

\* the function Trace.parse hands to attempt
parseBody(data) ==
    LET parsed == IF data.ty = "string" THEN JSONparse(data) ELSE Ok(data)
    IN  IF ~parsed.ok THEN parsed
        ELSE IF parsed.value.ty = "array" THEN parseArray(parsed.value)
        ELSE parseTagged(parsed.value)

\* attempt(fn) of ts-utils/check: the value as a success Result, an
\* exception as a failure Result
Success(v) == [result |-> "ok", value |-> v]

Failure(e) == [result |-> "err", error |-> e]

attempt(r) == IF r.ok THEN Success(r.value) ELSE Failure(r.error)

parse(data) == attempt(parseBody(data))

\* trace.serialize(compressed); the text, or the exception it lets through
serialize(points, compressed) ==
    LET converted == convert(points)
    IN  IF ~converted.ok THEN converted
        ELSE IF compressed
        THEN LET text == compress(converted.value)
             IN  IF ~text.ok THEN text
                 ELSE Ok(JSONstringify(Obj("compressed", Str(text.value))))
        ELSE Ok(JSONstringify(Obj("parsed", toJS(deExpand(converted.value)))))

-----------------------------------------------------------------------------
(* Analytics.  Coordinates are read in hundredths, so that distances and    *)
(* velocities are integers in units of 0.01; the inputs keep to coordinates *)
(* that are multiples of 0.01 and to moves whose length is rational, on     *)
(* which this arithmetic is that of the real numbers.                       *)

FieldWidth == 54

FieldHeight == 27

SampleRate == 4

\* the coordinates of the analytics are counted in units of 10^-2
Hundred == 10^2

\* the coordinate n in hundredths
centi(n) == n.w * Hundred + n.f \div (Scale \div Hundred)

\* the greatest r in lo..hi with r * r <= n
RECURSIVE rootBetween(_, _, _)
rootBetween(n, lo, hi) ==
    IF lo >= hi THEN lo
    ELSE LET mid == (lo + hi + 1) \div 2
         IN  IF mid * mid <= n THEN rootBetween(n, mid, hi)
             ELSE rootBetween(n, lo, mid - 1)

\* Math.sqrt on a perfect square
sqrt(n) == rootBetween(n, 0, Min2(n, 46340))

\* the sum of m[lo..hi]
RECURSIVE sumRange(_, _, _)
sumRange(m, lo, hi) ==
    IF lo > hi THEN 0
    ELSE IF lo = hi THEN m[lo]
    ELSE LET mid == (lo + hi) \div 2
         IN  sumRange(m, lo, mid) + sumRange(m, mid + 1, hi)

\* the callback of velocityMap for a point and its successor
velocity(p1, p2) ==
    LET dx == (centi(p2[2]) - centi(p1[2])) * FieldWidth
        dy == (centi(p2[3]) - centi(p1[3])) * FieldHeight
        distance == sqrt(dx * dx + dy * dy)
    IN  distance * SampleRate

\* trace.velocityMap(): one velocity per pair of adjacent points
velocityMap(points) ==
    [i \in 1..(Len(points) - 1) |-> velocity(points[i], points[i + 1])]

\* a histogram that does not clamp the bucket index to the last bucket
velocityHistogramUnclamped(points, bins) ==
    LET m == velocityMap(points)
    IN  IF Len(m) = 0 THEN [bins |-> <<>>, labels |-> <<>>]
        ELSE LET max == SetMax({m[k] : k \in 1..Len(m)})
                 bucket(v) == IF max = 0 THEN v \div Hundred ELSE (v * bins) \div max
             IN  [bins |-> [b \in 1..bins |->
                              Cardinality({k \in 1..Len(m) : bucket(m[k]) = b - 1})],
                  labels |-> [b \in 1..bins |->
                              IF max = 0 THEN [n |-> (2 * b - 1) * Hundred, d |-> 2]
                              ELSE [n |-> (2 * b - 1) * max, d |-> 2 * bins]]]

\* a histogram whose labels are the lower ends of the buckets
histogramLowerEnds(m, bins) ==
    IF Len(m) = 0 THEN [bins |-> <<>>, labels |-> <<>>]
    ELSE LET max == SetMax({m[k] : k \in 1..Len(m)})
             bucket(v) == IF max = 0 THEN Min2(bins - 1, v \div Hundred)
                          ELSE Min2(bins - 1, (v * bins) \div max)
         IN  [bins |-> [b \in 1..bins |->
                          Cardinality({k \in 1..Len(m) : bucket(m[k]) = b - 1})],
              labels |-> [b \in 1..bins |->
                          IF max = 0 THEN [n |-> (b - 1) * Hundred, d |-> 1]
                          ELSE [n |-> (b - 1) * max, d |-> bins]]]

\* the body of velocityHistogram after m = this.velocityMap(), m in
\* hundredths
histogram(m, bins) ==
    IF Len(m) = 0 THEN [bins |-> <<>>, labels |-> <<>>]
    ELSE LET max == SetMax({m[k] : k \in 1..Len(m)})
             bucket(v) == IF max = 0 THEN Min2(bins - 1, v \div Hundred)
                          ELSE Min2(bins - 1, (v * bins) \div max)
         IN  [bins |-> [b \in 1..bins |->
                          Cardinality({k \in 1..Len(m) : bucket(m[k]) = b - 1})],
              labels |-> [b \in 1..bins |->
                          IF max = 0 THEN [n |-> (2 * b - 1) * Hundred, d |-> 2]
                          ELSE [n |-> (2 * b - 1) * max, d |-> 2 * bins]]]

\* trace.velocityHistogram(bins).  bucketSize is max / bins, or 1 (100
\* hundredths) when max is 0; Math.floor(v / bucketSize) is the integer
\* quotient of v * bins by max.  A label (i + 0.5) * bucketSize is the
\* fraction n / d.
velocityHistogram(points, bins) == histogram(velocityMap(points), bins)

\* trace.averageVelocity(): sum / m.length as the fraction n / d
averageVelocity(points) ==
    LET m == velocityMap(points)
    IN  [n |-> sumRange(m, 1, Len(m)), d |-> Len(m)]

\* trace.filterAction(action)
filterAction(points, action) ==
    LET matches(p) == p[4] = action
    IN  SelectSeq(points, matches)

\* trace.secondsNotMoving(threshold), threshold in hundredths: the count of
\* velocities below it, divided by 4
secondsNotMoving(points, threshold) ==
    LET m == velocityMap(points)
        notMovingCount == Cardinality({k \in 1..Len(m) : m[k] < threshold})
    IN  Num(notMovingCount \div SampleRate,
            (notMovingCount % SampleRate) * (Scale \div SampleRate))

\* the static Trace.getSection(point); "null" stands for null
getSectionOf(point) ==
    IF point[1] < 15 * SampleRate THEN "auto"
    ELSE IF point[1] < 135 * SampleRate THEN "teleop"
    ELSE IF point[1] < 150 * SampleRate THEN "endgame"
    ELSE "null"

\* points.slice(from, to) with 0-based from (inclusive) and to (exclusive)
slicePoints(points, from, to) == SubSeq(points, from + 1, Min2(to, Len(points)))

\* trace.getSection(section)
getSection(points, section) ==
    CASE section = "auto"    -> slicePoints(points, 0, 15 * SampleRate)
      [] section = "teleop"  -> slicePoints(points, 15 * SampleRate, 135 * SampleRate)
      [] section = "endgame" -> slicePoints(points, 135 * SampleRate, 150 * SampleRate)
      [] OTHER               -> <<>>

\* a method call that cuts the points of a section out of the instance
invokeSplicing(points, method, arg) ==
    [result |-> IF method = "getSection" THEN getSection(points, arg) ELSE <<>>,
     points |-> IF method = "getSection" /\ arg = "auto"
                THEN slicePoints(points, 15 * SampleRate, Len(points))
                ELSE points]

\* a call of a method of a Trace instance: what it returns, and the points
\* of the instance after it.  No method assigns this.points or an element
\* of it: map, filter and slice build new arrays, sort is applied to a copy.
invoke(points, method, arg) ==
    [result |->
        CASE method = "velocityMap"       -> velocityMap(points)
          [] method = "velocityHistogram" -> velocityHistogram(points, arg)
          [] method = "averageVelocity"   -> averageVelocity(points)
          [] method = "secondsNotMoving"  -> secondsNotMoving(points, arg)
          [] method = "filterAction"      -> filterAction(points, arg)
          [] method = "getSection"        -> getSection(points, arg)
          [] method = "serialize"         -> serialize(points, arg),
     points |-> points]

-----------------------------------------------------------------------------
(* Bounds of the checked inputs *)

\* compressNum is applied to every integer in -NegNum .. MaxNum
NegNum == 3

MaxNum == 1060

\* decompressNum is applied to every string of at most MaxStrLen characters
\* over CodecAlphabet
MaxStrLen == 3

CodecAlphabet == {"A", "B", "L", "T", "z", "0", ";"}

\* integers far outside the range, and one non-integer
FarNums == {Int0(2703), Int0(2704), Int0(100000), Int0(-100000), Num(0, Scale \div 2)}

NumInputs == {Int0(n) : n \in (0 - NegNum)..MaxNum} \cup FarNums

RECURSIVE SeqsUpTo(_, _)
SeqsUpTo(S, n) ==
    IF n = 0 THEN {<<>>}
    ELSE LET shorter == SeqsUpTo(S, n - 1)
         IN  shorter \cup {Append(q, e) : q \in shorter, e \in S}

StrInputs == SeqsUpTo(CodecAlphabet, MaxStrLen)

-----------------------------------------------------------------------------
(* The codec on its own: compressNum, decompressNum and their composition  *)

InitCodec ==
    /\ pc = "start"
    /\ input = Undefined
    /\ output = Undefined
    /\ trace = <<>>
    /\ wire = Undefined

CompressNum ==
    /\ pc = "start"
    /\ \E n \in NumInputs :
          /\ input' = n
          /\ output' = compressNum(n)
    /\ pc' = "compressNum"
    /\ UNCHANGED <<trace, wire>>

DecompressNum ==
    /\ pc = "start"
    /\ \E str \in StrInputs :
          /\ input' = str
          /\ output' = decompressNum(str)
    /\ pc' = "decompressNum"
    /\ UNCHANGED <<trace, wire>>

\* decompressNum(compressNum(n))
DecompressCompressed ==
    /\ pc = "compressNum"
    /\ output.ok
    /\ wire' = output.value
    /\ output' = decompressNum(output.value)
    /\ pc' = "decompressCompressed"
    /\ UNCHANGED <<input, trace>>

NextCodec == CompressNum \/ DecompressNum \/ DecompressCompressed

SpecCodec == InitCodec /\ [][NextCodec]_vars

InAlphabet(ch) == \E k \in 1..Len(chars) : chars[k] = ch

\* C8: for every integer n, compressNum returns without error a string of
\* exactly 2 characters of A-Za-z; every n < 0 gives the string of 0, every
\* n > 999 the string of 999; compressNum(0) = "AA" and compressNum(52) = "BA".
C8_CompressNumSaturates ==
    (pc = "compressNum" /\ IsInteger(input)) =>
        /\ output.ok
        /\ Len(output.value) = 2
        /\ InAlphabet(output.value[1]) /\ InAlphabet(output.value[2])
        /\ (input.w < 0 => output.value = <<"A", "A">>)
        /\ (input.w = 0 => output.value = <<"A", "A">>)
        /\ (input.w = 52 => output.value = <<"B", "A">>)
        /\ (input.w > 999 => output = compressNum(Int0(999)))

\* an integer above 999 has been encoded, to the string of 999
C8_Witness ==
    /\ pc = "compressNum"
    /\ input = Int0(1000)
    /\ output = Ok(<<"T", "L">>)

\* C9: decompressNum(compressNum(n)) = n for every integer n in 0..999, and
\* decompressNum throws for every string whose length is not 2 or that
\* holds a character outside A-Za-z.
C9_DecodeInvertsEncode ==
    /\ (pc = "decompressCompressed" /\ input.w >= 0 /\ input.w <= 999) =>
           (output.ok /\ output.value = input.w)
    /\ (pc = "decompressNum" /\
            (Len(input) # 2 \/ \E k \in 1..Len(input) : ~InAlphabet(input[k]))) =>
           ~output.ok

\* 999 has been encoded and decoded back
C9_Witness ==
    /\ pc = "decompressCompressed"
    /\ input = Int0(999)
    /\ wire = <<"T", "L">>
    /\ output = Ok(999)

-----------------------------------------------------------------------------
(* expand and deExpand on their own *)

\* a sparse input holds at most MaxSparse points
MaxSparse == 2

\* the coordinate n / 10000
Dec(n) == Num(0, n * (Scale \div 10000))

ExpandTimes == {0, 3, GRID_SIZE - 1, GRID_SIZE}

ExpandPositions == {<<Zero, Zero>>, <<Dec(1000), Dec(1000)>>, <<Dec(1000), Dec(2000)>>}

ExpandActions == {Zero, Str(<<"a">>)}

ExpandPoints ==
    {<<i, pos[1], pos[2], a>> : i \in ExpandTimes, pos \in ExpandPositions, a \in ExpandActions}

SparseInputs == SeqsUpTo(ExpandPoints, MaxSparse)

\* inputs of GRID_SIZE points and more: one point repeated, dense traces,
\* dense traces with one more point in front or behind, a dense trace in
\* which every point carries an action, a dense trace back to front
LongPoints == {<<0, Zero, Zero, Zero>>, <<3, Dec(1000), Dec(2000), Str(<<"a">>)>>,
               <<GRID_SIZE, Dec(1000), Dec(1000), Zero>>}

LongSeeds == {<<>>, <<<<0, Dec(1000), Dec(1000), Zero>>>>,
              <<<<1, Dec(1000), Dec(2000), Str(<<"a">>)>>, <<3, Dec(1000), Dec(1000), Zero>>>>}

Repeated(p, n) == [k \in 1..n |-> p]

AllActions(tr) == [k \in 1..Len(tr) |-> <<tr[k][1], tr[k][2], tr[k][3], Str(<<"a">>)>>]

Reversed(tr) == [k \in 1..Len(tr) |-> tr[Len(tr) + 1 - k]]

LongInputs ==
    {Repeated(p, n) : p \in LongPoints, n \in {GRID_SIZE, GRID_SIZE + 1}}
    \cup {fill(S) : S \in LongSeeds}
    \cup {AllActions(fill(S)) : S \in LongSeeds}
    \cup {Reversed(fill(S)) : S \in LongSeeds}
    \cup {Append(fill(S), p) : S \in LongSeeds, p \in LongPoints}
    \cup {<<p>> \o fill(S) : S \in LongSeeds, p \in LongPoints}
    \cup {<<<<-1, Dec(1000), Dec(1000), Zero>>>> \o fill(<<>>)}

ExpandInputs == SparseInputs \cup LongInputs

InitExpand ==
    /\ pc = "start"
    /\ input = <<>>
    /\ output = <<>>
    /\ trace = <<>>
    /\ wire = Undefined

\* Trace.expand(S)
Expand ==
    /\ pc = "start"
    /\ \E S \in ExpandInputs :
          /\ input' = S
          /\ output' = expand(S)
    /\ pc' = "expand"
    /\ UNCHANGED <<trace, wire>>

\* Trace.deExpand(Trace.expand(S))
DeExpandExpanded ==
    /\ pc = "expand"
    /\ trace' = output
    /\ output' = deExpand(output)
    /\ pc' = "deExpandExpanded"
    /\ UNCHANGED <<input, wire>>

NextExpand == Expand \/ DeExpandExpanded

SpecExpand == InitExpand /\ [][NextExpand]_vars

\* the point at position k has time index k - 1, for all GRID_SIZE positions
Contiguous(tr) ==
    /\ Len(tr) = GRID_SIZE
    /\ \A k \in 1..GRID_SIZE : tr[k][1] = k - 1

StrictlyIncreasingInGrid(S) ==
    /\ \A k \in 1..Len(S) : S[k][1] >= 0 /\ S[k][1] < GRID_SIZE
    /\ \A k \in 1..(Len(S) - 1) : S[k][1] < S[k + 1][1]

\* C4: for every input point sequence, expand returns exactly GRID_SIZE
\* points whose time indices are 0, 1, ..., GRID_SIZE-1 in that order.
C4_ExpandAlwaysDense ==
    pc = "expand" => Contiguous(output)

\* the positions of tr holding the first point seen for a time index below
\* GRID_SIZE
FirstSeen(tr) ==
    {k \in 1..Len(tr) :
        tr[k][1] < GRID_SIZE /\ ~\E j \in 1..(k - 1) : tr[j][1] = tr[k][1]}

\* C21: for an input longer than GRID_SIZE, expand returns, in input order,
\* the first point seen for each distinct time index below GRID_SIZE: later
\* points with a time index already seen and points with a time index of
\* GRID_SIZE or more are left out, and nothing is collected beyond
\* GRID_SIZE points.
C21_TruncateKeepsFirst ==
    (pc = "expand" /\ Len(input) > GRID_SIZE) =>
        LET first == FirstSeen(input)
        IN  /\ Len(output) = Min2(Cardinality(first), GRID_SIZE)
            /\ \A k \in first :
                   LET n == Cardinality({j \in first : j <= k})
                   IN  n <= GRID_SIZE => output[n] = input[k]

\* a point at time 3 with an action, followed by a dense trace: the point
\* is returned first and the point of the dense trace at time 3 is left out
C21_Witness ==
    /\ pc = "expand"
    /\ Len(input) = GRID_SIZE + 1
    /\ input[1] = <<3, Dec(1000), Dec(2000), Str(<<"a">>)>>
    /\ input[5] = <<3, Zero, Zero, Zero>>
    /\ Len(output) = GRID_SIZE
    /\ output[1] = input[1]
    /\ output[4] = input[4]
    /\ output[5] = input[6]

C10_RoundTripAsStated ==
    (/\ pc = "deExpandExpanded"
     /\ StrictlyIncreasingInGrid(input)
     /\ \A j, k \in 1..Len(input) :
           (j # k /\ input[j][4] = Zero /\ input[k][4] = Zero) =>
               (input[j][2] # input[k][2] \/ input[j][3] # input[k][3]))
    => output = input

\* C10, amended: for every non-empty S with strictly increasing time indices
\* in [0, GRID_SIZE) whose first point has time index 0 and in which no point
\* has both no action and the position of the point before it,
\* deExpand(expand(S)) = S.
C10_RoundTripFromZero ==
    (/\ pc = "deExpandExpanded"
     /\ StrictlyIncreasingInGrid(input)
     /\ Len(input) >= 1
     /\ input[1][1] = 0
     /\ \A k \in 2..Len(input) :
           input[k][4] # Zero \/ input[k][2] # input[k - 1][2]
                              \/ input[k][3] # input[k - 1][3])
    => output = input

\* a two-point sparse trace with a gap has been expanded to GRID_SIZE points
\* and compacted back to itself
C10_Witness ==
    /\ pc = "deExpandExpanded"
    /\ input = <<<<0, Dec(1000), Dec(1000), Zero>>, <<3, Dec(1000), Dec(2000), Zero>>>>
    /\ Len(trace) = GRID_SIZE
    /\ trace[3] = <<2, Dec(1000), Dec(1000), Zero>>
    /\ output = input

-----------------------------------------------------------------------------
(* Inputs of Trace.parse *)

\* a raw array holds at most MaxRawPoints items, a short compressed string
\* at most MaxFields fields
MaxRawPoints == 2

MaxFields == 2

Tuple(i, x, y, a) == Arr(<<i, x, y, a>>)

\* 1.5e-7 and 1e-7: numbers that print in exponent notation
Tiny15 == Num(0, 15)

Tiny10 == Num(0, 10)

\* points the schema accepts
RawValid ==
    { Tuple(Int0(0), Dec(5000), Dec(2500), Zero),
      Tuple(Int0(3), Dec(1239), One, Str(<<"a">>)),
      Tuple(Int0(0), One, One, Zero),
      Tuple(Int0(GRID_SIZE - 1), Dec(10), Zero, Str(<<"0">>)),
      Tuple(Int0(GRID_SIZE), Dec(5000), Dec(5000), Str(<<"b", ";">>)),
      Tuple(Int0(5), Tiny15, Tiny10, Zero) }

\* items the schema rejects as they stand: wrong arity, a coordinate or a
\* time index out of range, a fractional time index, wrong element types,
\* and items that are no array
RawInvalid ==
    { Arr(<<Int0(0), Dec(5000), Dec(2500)>>),
      Arr(<<Int0(0), Dec(5000), Dec(2500), Zero, Str(<<"z">>)>>),
      Tuple(Int0(0), Num(1, Scale \div 2), Dec(5000), Zero),
      Tuple(Int0(0), Dec(5000), Num(-1, Scale \div 2), Zero),
      Tuple(Int0(GRID_SIZE + 1), Dec(5000), Dec(5000), Zero),
      Tuple(Int0(-1), Dec(5000), Dec(5000), Zero),
      Tuple(Num(0, Scale \div 2), Dec(5000), Dec(5000), Zero),
      Tuple(Int0(0), Str(<<"x">>), Dec(5000), Zero),
      Tuple(Int0(0), Null, Dec(5000), Zero),
      Tuple(Int0(0), Dec(5000), Dec(5000), One),
      Int0(7),
      Str(<<"a", "b", "c", "d">>),
      Null }

RawItems == RawValid \cup RawInvalid

RawArrays == {Arr(q) : q \in SeqsUpTo(RawItems, MaxRawPoints)}

\* arrays of about GRID_SIZE points
DenseSeeds ==
    { <<>>,
      << <<0, Dec(5000), Dec(2500), Zero>> >>,
      << <<0, One, One, Zero>> >>,
      << <<1, Dec(1239), One, Str(<<"a">>)>>, <<3, Dec(5000), Dec(5000), Zero>> >>,
      << <<3, Dec(5000), Dec(5000), Str(<<"b", ";">>)>> >> }

DensePoints == {<<0, Dec(5000), Dec(2500), Zero>>, <<GRID_SIZE, Zero, One, Str(<<"a">>)>>}

DenseTraces ==
    {fill(S) : S \in DenseSeeds}
    \cup {Reversed(fill(S)) : S \in DenseSeeds}
    \cup {SubSeq(fill(S), 1, GRID_SIZE - 1) : S \in DenseSeeds}
    \cup {Repeated(p, n) : p \in DensePoints, n \in {GRID_SIZE, GRID_SIZE + 1}}
    \cup {Append(fill(S), p) : S \in DenseSeeds, p \in DensePoints}
    \cup {<<p>> \o fill(S) : S \in DenseSeeds, p \in DensePoints}

ArrayPayloads == RawArrays \cup {toJS(tr) : tr \in DenseTraces}

\* fields of a compressed string: "AAAAAA0" (time 0, x 0, y 0, no action),
\* "ADJmTLa" (3, 0.506, 0.999, "a"), "MPAAAB" (639, 0, 0.001, ""),
\* "NcAAAA0" (time 704), "AAzzAA0" (x 2.703), and fields that do not decode:
\* a 1-character field, a 5-character field, a digit in a number, the
\* empty field; "AAAAAa": time "AA", a 1-character x "A", y "AA" and the
\* action "a"
F_origin == <<"A", "A", "A", "A", "A", "A", "0">>

F_point == <<"A", "D", "J", "m", "T", "L", "a">>

F_last == <<"M", "P", "A", "A", "A", "B">>

F_late == <<"N", "c", "A", "A", "A", "A", "0">>

F_far == <<"A", "A", "z", "z", "A", "A", "0">>

F_one == <<"A">>

F_five == <<"A", "A", "A", "A", "A">>

F_digit == <<"A", "A", "0", "A", "A", "A", "0">>

F_short == <<"A", "A", "A", "A", "A", "a">>

CompressedFields ==
    {F_origin, F_point, F_last, F_late, F_far, F_one, F_five, F_digit, F_short, <<>>}

\* the compressed text of a dense trace, and the same text with its first
\* field (7 characters) replaced
DenseText(S) == compress(convert(fill(S)).value).value

ReplaceFirst(text, field) == field \o SubSeq(text, Len(F_origin) + 1, Len(text))

CompressedPayloads ==
    {Str(join(q)) : q \in SeqsUpTo(CompressedFields, MaxFields) \ {<<>>}}
    \cup {Str(DenseText(S)) : S \in DenseSeeds}
    \cup {Str(ReplaceFirst(DenseText(<<>>), f)) : f \in {F_late, F_far, F_one}}

\* a payload of the wrong type for its tag, an unknown or missing tag,
\* values that are no object, JSON text
OddInputs ==
    { Obj("compressed", Arr(<<>>)),
      Obj("compressed", Undefined),
      Obj("parsed", Str(F_origin)),
      Obj("expanded", Str(F_origin)),
      Obj("parsed", Undefined),
      Obj("raw", Arr(<<>>)),
      Obj("undefined", Str(F_origin)),
      Null,
      Int0(5),
      MalformedText,
      Text(Int0(5)),
      Text(Arr(<<Tuple(Int0(3), Dec(1239), One, Str(<<"a">>))>>)),
      Text(Obj("parsed", Arr(<<Tuple(Int0(3), Dec(1239), One, Str(<<"a">>))>>))),
      Text(Obj("compressed", Str(F_point))) }

ParseInputs ==
    ArrayPayloads
    \cup {Obj(tag, p) : tag \in {"parsed", "expanded"}, p \in ArrayPayloads}
    \cup {Obj("compressed", p) : p \in CompressedPayloads}
    \cup OddInputs

-----------------------------------------------------------------------------
(* Trace.parse and Trace.serialize *)

Init ==
    /\ pc = "start"
    /\ input = Undefined
    /\ output = Undefined
    /\ trace = <<>>
    /\ wire = Undefined

\* Trace.parse(data)
Parse ==
    /\ pc = "start"
    /\ \E data \in ParseInputs :
          /\ input' = data
          /\ output' = parse(data)
    /\ pc' = "parse"
    /\ UNCHANGED <<trace, wire>>

\* T.serialize(compressed) on the Trace T a successful parse returned
Serialize ==
    /\ pc = "parse"
    /\ output.result = "ok"
    /\ \E compressed \in BOOLEAN :
          /\ wire' = serialize(output.value, compressed)
          /\ pc' = IF compressed THEN "serializeCompressed" ELSE "serializeParsed"
    /\ trace' = output.value
    /\ UNCHANGED <<input, output>>

\* Trace.parse(T.serialize(compressed))
Reparse ==
    /\ pc \in {"serializeCompressed", "serializeParsed"}
    /\ wire.ok
    /\ output' = parse(wire.value)
    /\ pc' = IF pc = "serializeCompressed" THEN "reparseCompressed" ELSE "reparseParsed"
    /\ UNCHANGED <<input, trace, wire>>

\* new Trace(points) on an array of points, whatever its length; trace is
\* the instance's points, empty when the constructor has thrown
Construct ==
    /\ pc = "start"
    /\ \E points \in DenseTraces :
          /\ input' = points
          /\ output' = newTrace(points)
          /\ trace' = IF newTrace(points).ok THEN newTrace(points).value ELSE <<>>
    /\ pc' = "construct"
    /\ UNCHANGED wire

Next == Parse \/ Serialize \/ Reparse \/ Construct

Spec == Init /\ [][Next]_vars

-----------------------------------------------------------------------------
(* Claims about Trace.parse and Trace.serialize *)

\* a state in which Trace.parse has just returned
Parsed == pc \in {"parse", "reparseCompressed", "reparseParsed"}

\* every point satisfies TraceSchema
SchemaValid(tr) ==
    \A k \in 1..Len(tr) :
        /\ tr[k][1] >= 0 /\ tr[k][1] <= GRID_SIZE
        /\ validCoordinate(tr[k][2])
        /\ validCoordinate(tr[k][3])

\* |a - b| in units of 1 / Scale
Distance(a, b) ==
    LET d == (a.w - b.w) * Scale + (a.f - b.f)
    IN  IF d < 0 THEN 0 - d ELSE d

\* the points of after are those of before: same time index and action,
\* coordinates at most tolerance (in units of 1 / Scale) apart
SamePoints(before, after, tolerance) ==
    /\ Len(after) = Len(before)
    /\ \A k \in 1..Len(before) :
          /\ after[k][1] = before[k][1]
          /\ after[k][4] = before[k][4]
          /\ Distance(after[k][2], before[k][2]) <= tolerance
          /\ Distance(after[k][3], before[k][3]) <= tolerance

\* C1: for every dense Trace T of GRID_SIZE schema-valid points,
\* Trace.parse(T.serialize(true)) returns success, and the resulting Trace
\* has at every index the time index and action of T and coordinates within
\* 0.0005 of those of T.
C1_CompressedRoundTrip ==
    /\ (pc = "serializeCompressed" /\ SchemaValid(trace)) => wire.ok
    /\ (pc = "reparseCompressed" /\ SchemaValid(trace)) =>
           /\ output.result = "ok"
           /\ SamePoints(trace, output.value, Scale \div 2000)

\* C2: for every dense Trace T, Trace.parse(T.serialize(false)) returns a
\* success result, and the resulting Trace's points equal those of T in time
\* index and action, and in coordinates up to the 3-decimal quantization.
C2_ParsedRoundTrip ==
    /\ (pc = "serializeParsed" /\ SchemaValid(trace)) => wire.ok
    /\ (pc = "reparseParsed" /\ SchemaValid(trace)) =>
           /\ output.result = "ok"
           /\ SamePoints(trace, output.value, Scale \div Thousand)

\* C3: every Trace that Trace.parse returns, for each accepted input shape,
\* holds exactly one point per time index 0..GRID_SIZE-1, the point at
\* position i having time index i.
C3_ParsedTraceContiguous ==
    (Parsed /\ output.result = "ok") => Contiguous(output.value)

\* what Trace.parse looks at: the value a JSON text denotes, or the value
IsText(data) == data.ty = "string"

Denoted(data) ==
    IF ~IsText(data) THEN data
    ELSE IF data.denotes.ok THEN data.denotes.value
    ELSE Undefined

IsTagged(v, tag) == v.ty = "object" /\ v.state = tag

\* the array of points of an input, if it has one
HasPoints(v) ==
    \/ v.ty = "array"
    \/ (v.ty = "object" /\ v.state \in {"parsed", "expanded"} /\ v.trace.ty = "array")

PointsOf(v) == IF v.ty = "array" THEN v.items ELSE v.trace.items

\* an item that is no array of exactly four elements
WrongShape(item) == item.ty # "array" \/ Len(item.items) # 4

\* a time index outside 0..GRID_SIZE in any array of points, or a coordinate
\* outside [0, 1] in a tagged payload (a bare array has its coordinates
\* clamped before validation)
OutOfRange(v, item) ==
    /\ ~WrongShape(item)
    /\ \/ (IsInteger(item.items[1]) /\ ~validIndex(item.items[1]))
       \/ /\ v.ty = "object"
          /\ \E n \in {2, 3} : IsNumber(item.items[n]) /\ ~validCoordinate(item.items[n])

\* the decoded time index (n = 0), x (n = 1) or y (n = 2) of a field of a
\* compressed string
FieldNumber(field, n) == decompressNum(slice(field, 2 * n, 2 * n + 2))

CompressedFieldsOf(v) ==
    IF IsTagged(v, "compressed") /\ v.trace.ty = "string" THEN split(v.trace.s) ELSE <<>>

\* a field of a compressed payload decodes to a time index >= bound
HasTimeFrom(v, bound) ==
    LET fields == CompressedFieldsOf(v)
    IN  \E k \in 1..Len(fields) :
            FieldNumber(fields[k], 0).ok /\ FieldNumber(fields[k], 0).value >= bound

\* a field of a compressed payload does not decode
Undecodable(v) ==
    LET fields == CompressedFieldsOf(v)
    IN  \E k \in 1..Len(fields) : \E n \in 0..2 : ~FieldNumber(fields[k], n).ok

\* the inputs C5 names
Malformed(data) ==
    \/ (IsText(data) /\ ~data.denotes.ok)
    \/ /\ ~(IsText(data) /\ ~data.denotes.ok)
       /\ LET v == Denoted(data)
          IN  \/ /\ HasPoints(v)
                 /\ \E k \in 1..Len(PointsOf(v)) :
                        WrongShape(PointsOf(v)[k]) \/ OutOfRange(v, PointsOf(v)[k])
              \/ HasTimeFrom(v, GRID_SIZE + 1)
              \/ (IsTagged(v, "compressed") /\ v.trace.ty # "string")
              \/ (v.ty = "object" /\ v.state \in {"parsed", "expanded"} /\ v.trace.ty # "array")
              \/ (v.ty = "object" /\ v.state \notin {"compressed", "parsed", "expanded"})
              \/ Undecodable(v)

\* C5: Trace.parse never throws: for malformed JSON text, a point tuple of
\* the wrong shape, an out-of-range number, a state tag whose payload has
\* the wrong type, an unknown state tag, or an undecodable compressed string
\* it returns a failure Result; a success Result carries a constructed Trace.
C5_ParseFailsOnMalformedInput ==
    pc = "parse" =>
        /\ output.result \in {"ok", "err"}
        /\ (Malformed(input) => output.result = "err")
        /\ (output.result = "ok" => Len(output.value) = GRID_SIZE)

\* C6: parsing a compressed payload in which some point's decoded time index
\* is >= GRID_SIZE returns a failure result.
C6_LateTimeIndexRejected ==
    (pc = "parse" /\ HasTimeFrom(Denoted(input), GRID_SIZE)) => output.result = "err"

\* C7: in every Trace that Trace.parse returns, every point has x and y
\* within [0, 1].
C7_CoordinatesInUnitSquare ==
    (Parsed /\ output.result = "ok") =>
        \A k \in 1..Len(output.value) :
            validCoordinate(output.value[k][2]) /\ validCoordinate(output.value[k][3])

-----------------------------------------------------------------------------
(* Trace.deExpand on its own, and Trace.expand of its result *)

\* a short point sequence holds at most MaxCompact points, a pattern at most
\* MaxPattern cells
MaxCompact == 3

MaxPattern == 2

CompactPoints ==
    { <<0, Zero, Zero, Zero>>,
      <<3, Zero, Zero, Zero>>,
      <<3, Dec(1000), Dec(2000), Zero>>,
      <<3, Zero, Zero, Str(<<"a">>)>>,
      <<0, Dec(1000), Dec(2000), Str(<<"a">>)>> }

ShortSequences == SeqsUpTo(CompactPoints, MaxCompact)

\* a cell is a position and an action
PatternPositions == {<<Dec(1000), Dec(1000)>>, <<Dec(1000), Dec(2000)>>}

PatternCells == {<<pos, a>> : pos \in PatternPositions, a \in ExpandActions}

Patterns == SeqsUpTo(PatternCells, MaxPattern) \ {<<>>}

\* the dense trace whose point at time i holds cell i mod Len(P) of P
Cycled(P) ==
    [k \in 1..GRID_SIZE |->
        LET cell == P[((k - 1) % Len(P)) + 1]
        IN  <<k - 1, cell[1][1], cell[1][2], cell[2]>>]

\* the dense trace made of Len(P) runs of equal length, run n holding cell n
Blocks(P) ==
    [k \in 1..GRID_SIZE |->
        LET cell == P[(((k - 1) * Len(P)) \div GRID_SIZE) + 1]
        IN  <<k - 1, cell[1][1], cell[1][2], cell[2]>>]

ContiguousTraces == {Cycled(P) : P \in Patterns} \cup {Blocks(P) : P \in Patterns}

CompactInputs == ShortSequences \cup ContiguousTraces \cup LongInputs

InitCompact ==
    /\ pc = "start"
    /\ input = <<>>
    /\ output = <<>>
    /\ trace = <<>>
    /\ wire = Undefined

\* Trace.deExpand(t)
Compact ==
    /\ pc = "start"
    /\ \E t \in CompactInputs :
          /\ input' = t
          /\ output' = deExpand(t)
    /\ pc' = "deExpand"
    /\ UNCHANGED <<trace, wire>>

\* Trace.deExpand(Trace.deExpand(t))
CompactAgain ==
    /\ pc = "deExpand"
    /\ trace' = output
    /\ output' = deExpand(output)
    /\ pc' = "deExpandTwice"
    /\ UNCHANGED <<input, wire>>

\* Trace.expand(Trace.deExpand(t))
ExpandCompacted ==
    /\ pc = "deExpand"
    /\ trace' = output
    /\ output' = expand(output)
    /\ pc' = "expandCompacted"
    /\ UNCHANGED <<input, wire>>

NextCompact == Compact \/ CompactAgain \/ ExpandCompacted

SpecCompact == InitCompact /\ [][NextCompact]_vars

\* C11: for every point sequence t, deExpand(deExpand(t)) = deExpand(t).
C11_CompactIdempotent ==
    pc = "deExpandTwice" => output = trace

\* a dense trace has been compacted to fewer points, at least two, and
\* compacting those again has returned them
C11_Witness ==
    /\ pc = "deExpandTwice"
    /\ Len(input) = GRID_SIZE
    /\ Len(trace) >= 2
    /\ Len(trace) < GRID_SIZE
    /\ output = trace

SamePosition(p, q) == p[2] = q[2] /\ p[3] = q[3]

\* the positions in t of the points that have an action or a position other
\* than that of the point before them, and position 1
MarkedPositions(t) ==
    LET marked(k) == k = 1 \/ t[k][4] # Zero \/ ~SamePosition(t[k], t[k - 1])
    IN  SelectSeq([k \in 1..Len(t) |-> k], marked)

\* C19: deExpand keeps the first point of its input; it keeps a later point
\* if and only if the point has an action or a position other than that of
\* the last kept point; the kept points are unmodified and in input order.
C19_CompactRule ==
    pc = "deExpand" =>
        LET kept == MarkedPositions(input)
            next(m) == IF m = Len(kept) THEN Len(input) + 1 ELSE kept[m + 1]
        IN  /\ Len(output) = Len(kept)
            /\ Len(input) >= 1 => (Len(kept) >= 1 /\ kept[1] = 1)
            /\ \A m \in 1..Len(kept) :
                  /\ output[m] = input[kept[m]]
                  /\ m >= 2 => \/ input[kept[m]][4] # Zero
                               \/ ~SamePosition(input[kept[m]], input[kept[m - 1]])
                  /\ \A k \in (kept[m] + 1)..(next(m) - 1) :
                        /\ input[k][4] = Zero
                        /\ SamePosition(input[k], input[kept[m]])

\* of three points the second, at the position of the first and without
\* action, has been dropped, and the third, at another position, kept
C19_Witness ==
    /\ pc = "deExpand"
    /\ input = << <<0, Zero, Zero, Zero>>, <<3, Zero, Zero, Zero>>,
                  <<3, Dec(1000), Dec(2000), Zero>> >>
    /\ output = << <<0, Zero, Zero, Zero>>, <<3, Dec(1000), Dec(2000), Zero>> >>

-----------------------------------------------------------------------------
(* Further claims about Trace.parse and the constructor *)

\* the payload of an input tagged 'expanded', when it is an array
ExpandedPayload(data) ==
    LET v == Denoted(data)
    IN  IF IsTagged(v, "expanded") /\ v.trace.ty = "array" THEN v.trace.items ELSE <<>>

\* C13: constructing a Trace from an array whose length is not GRID_SIZE
\* fails and yields no instance; Trace.parse of an 'expanded' payload whose
\* array length is not GRID_SIZE returns a failure result.
C13_WrongLengthRejected ==
    /\ (pc = "construct" /\ Len(input) # GRID_SIZE) => (~output.ok /\ trace = <<>>)
    /\ (/\ pc = "parse"
        /\ IsTagged(Denoted(input), "expanded")
        /\ Denoted(input).trace.ty = "array"
        /\ Len(ExpandedPayload(input)) # GRID_SIZE) => output.result = "err"

\* an 'expanded' payload of GRID_SIZE - 1 schema-valid points has been
\* parsed and refused
C13_Witness ==
    /\ pc = "parse"
    /\ input = Obj("expanded", toJS(SubSeq(fill(<<>>), 1, GRID_SIZE - 1)))
    /\ TraceSchemaParse(input.trace).ok
    /\ output.result = "err"

\* the text of a point with a 1-character numeric field: three numeric
\* fields of 1, 2 and 2 letters in some order, then an action text of at
\* most one character.  (A well-formed point is six letters and then "0" or
\* its action, so no text of 5 or 6 characters is one.)
OneCharacterField(field) ==
    /\ Len(field) \in {5, 6}
    /\ \A k \in 1..5 : InAlphabet(field[k])

TooShortField(field) ==
    \/ Len(field) < 6
    \/ (Len(field) = 6 /\ field[6] = "0")

BareArrayOfPoints(v) ==
    /\ v.ty = "array"
    /\ \A k \in 1..Len(v.items) :
          /\ ~WrongShape(v.items[k])
          /\ IsNumber(v.items[k].items[1])
          /\ IsNumber(v.items[k].items[2])
          /\ IsNumber(v.items[k].items[3])
          /\ validAction(v.items[k].items[4])

\* the points of a bare array with x and y clamped into [0, 1]
ClampedPoints(v) ==
    [k \in 1..Len(v.items) |->
        <<v.items[k].items[1].w, clamp01(v.items[k].items[2]),
          clamp01(v.items[k].items[3]), v.items[k].items[4]>>]

\* C17: for a bare array, x and y are clamped into [0, 1] before validation,
\* so a point with a coordinate outside [0, 1] is accepted with the clamped
\* value and the array is expanded as a sparse trace; the time index is not
\* clamped, and a time index outside [0, GRID_SIZE) yields a failure result.
C17_BareArrayClamped ==
    (pc = "parse" /\ BareArrayOfPoints(Denoted(input))) =>
        LET v == Denoted(input)
            inGrid(k) == /\ IsInteger(v.items[k].items[1])
                         /\ v.items[k].items[1].w >= 0
                         /\ v.items[k].items[1].w < GRID_SIZE
        IN  IF \A k \in 1..Len(v.items) : inGrid(k)
            THEN /\ output.result = "ok"
                 /\ output.value = expand(ClampedPoints(v))
            ELSE output.result = "err"

-----------------------------------------------------------------------------
(* The methods of a Trace instance *)

\* velocityHistogram is called with 1..MaxBins bins
MaxBins == 3

\* positions on the 0.01 grid; every move between neighbours in a pattern,
\* the last and the first included, has a rational length
AnalyticPatterns ==
    { << <<<<Dec(5000), Dec(5000)>>, Zero>> >>,
      << <<<<Dec(1000), Dec(1000)>>, Zero>>, <<<<Dec(1000), Dec(2000)>>, Str(<<"a">>)>> >>,
      << <<<<Dec(1000), Dec(1000)>>, Str(<<"a">>)>>, <<<<Dec(1300), Dec(1800)>>, Zero>>,
         <<<<Dec(1300), Dec(1000)>>, Zero>>, <<<<Dec(5000), Dec(1000)>>, Str(<<"b">>)>> >>,
      << <<<<Zero, Zero>>, Zero>>, <<<<One, Zero>>, Zero>>, <<<<One, One>>, Zero>> >>,
      << <<<<Dec(2500), Dec(7500)>>, Zero>>, <<<<Dec(2500), Dec(7600)>>, Zero>>,
         <<<<Dec(2500), Dec(7500)>>, Str(<<"a">>)>>, <<<<Dec(7500), Dec(7500)>>, Zero>>,
         <<<<Dec(2500), Dec(7500)>>, Zero>> >> }

AnalyticTraces == {Cycled(P) : P \in AnalyticPatterns} \cup {Blocks(P) : P \in AnalyticPatterns}

\* thresholds in hundredths: 0.1 (the default), 0 and 11
Thresholds == {10, 0, 1100}

Sections == {"auto", "teleop", "endgame", "other"}

FilterActions == {Zero, Str(<<"a">>), Str(<<"z">>)}

InitAnalytics ==
    /\ pc = "start"
    /\ input = <<>>
    /\ output = Undefined
    /\ trace = <<>>
    /\ wire = Undefined

\* new Trace(points): input keeps the points given, trace is this.points
Instantiate ==
    /\ pc = "start"
    /\ \E points \in AnalyticTraces :
          /\ newTrace(points).ok
          /\ input' = points
          /\ trace' = newTrace(points).value
    /\ pc' = "instance"
    /\ UNCHANGED <<output, wire>>

\* the record of a call on the instance: the method, its argument and what
\* it returns
returned(method, arg) ==
    [method |-> method, arg |-> arg, result |-> invoke(trace, method, arg).result]

\* this.points after the call
pointsAfter(method, arg) == invoke(trace, method, arg).points

VelocityMap ==
    /\ pc = "instance"
    /\ output' = returned("velocityMap", Undefined)
    /\ trace' = pointsAfter("velocityMap", Undefined)
    /\ UNCHANGED <<pc, input, wire>>

VelocityHistogram ==
    /\ pc = "instance"
    /\ \E bins \in 1..MaxBins :
          /\ output' = returned("velocityHistogram", bins)
          /\ trace' = pointsAfter("velocityHistogram", bins)
    /\ UNCHANGED <<pc, input, wire>>

AverageVelocity ==
    /\ pc = "instance"
    /\ output' = returned("averageVelocity", Undefined)
    /\ trace' = pointsAfter("averageVelocity", Undefined)
    /\ UNCHANGED <<pc, input, wire>>

SecondsNotMoving ==
    /\ pc = "instance"
    /\ \E threshold \in Thresholds :
          /\ output' = returned("secondsNotMoving", threshold)
          /\ trace' = pointsAfter("secondsNotMoving", threshold)
    /\ UNCHANGED <<pc, input, wire>>

FilterAction ==
    /\ pc = "instance"
    /\ \E action \in FilterActions :
          /\ output' = returned("filterAction", action)
          /\ trace' = pointsAfter("filterAction", action)
    /\ UNCHANGED <<pc, input, wire>>

GetSection ==
    /\ pc = "instance"
    /\ \E section \in Sections :
          /\ output' = returned("getSection", section)
          /\ trace' = pointsAfter("getSection", section)
    /\ UNCHANGED <<pc, input, wire>>

SerializeInstance ==
    /\ pc = "instance"
    /\ \E compressed \in BOOLEAN :
          /\ output' = returned("serialize", compressed)
          /\ trace' = pointsAfter("serialize", compressed)
    /\ UNCHANGED <<pc, input, wire>>

NextAnalytics ==
    \/ Instantiate
    \/ VelocityMap
    \/ VelocityHistogram
    \/ AverageVelocity
    \/ SecondsNotMoving
    \/ FilterAction
    \/ GetSection
    \/ SerializeInstance

SpecAnalytics == InitAnalytics /\ [][NextAnalytics]_vars

\* a call has just returned
Returned(method) == pc = "instance" /\ output # Undefined /\ output.method = method

\* C12: for every Trace and every bins >= 1, velocityHistogram(bins) returns
\* bins bucket counts, each a non-negative integer, whose sum is the length
\* of the velocity series, GRID_SIZE - 1.
C12_HistogramCountsAll ==
    Returned("velocityHistogram") =>
        /\ Len(velocityMap(trace)) = GRID_SIZE - 1
        /\ Len(output.result.bins) = output.arg
        /\ \A b \in 1..Len(output.result.bins) : output.result.bins[b] \in Nat
        /\ sumRange(output.result.bins, 1, Len(output.result.bins)) = GRID_SIZE - 1

\* a trace that moves at two different speeds has been put into 3 buckets,
\* the last of which holds the fastest moves
C12_Witness ==
    /\ Returned("velocityHistogram")
    /\ output.arg = 3
    /\ output.result.bins[1] > 0
    /\ output.result.bins[3] > 0
    /\ output.result.bins[1] + output.result.bins[2] + output.result.bins[3] = GRID_SIZE - 1

-----------------------------------------------------------------------------
(* Trace.parse step by step.  pc is the place reached in the function,      *)
(* wire the data in hand there, trace the points of the instance once it    *)
(* is constructed, output the Result once parse has returned.               *)

\* JSON.parse, the test for a bare array, z.object(...).parse and the type
\* test of the branch taken: the branch and its payload, or the exception
dispatch(data) ==
    LET parsed == IF data.ty = "string" THEN JSONparse(data) ELSE Ok(data)
    IN  IF ~parsed.ok THEN parsed
        ELSE LET v == parsed.value
             IN  IF v.ty = "array" THEN Ok([stage |-> "bare", payload |-> v])
                 ELSE IF v.ty # "object" \/ v.state \notin {"compressed", "parsed", "expanded"}
                 THEN Throw("ZodError: invalid state")
                 ELSE IF v.state = "compressed"
                 THEN IF v.trace.ty # "string"
                      THEN Throw("TraceError: expected a string")
                      ELSE Ok([stage |-> "compressed", payload |-> v.trace])
                 ELSE IF v.trace.ty # "array"
                 THEN Throw("TraceError: expected an array")
                 ELSE Ok([stage |-> v.state, payload |-> v.trace])

\* a routing in which the 'expanded' branch calls Trace.expand as well
expandsAlways(stage) == stage \in {"decoded", "validatedParsed", "validatedExpanded"}

\* the places from which Trace.expand is called: after decompress, and
\* after the validation of a bare array or a 'parsed' payload; never in the
\* 'expanded' branch
expands(stage) == stage \in {"decoded", "validatedParsed"}

StageArrays == {Arr(q) : q \in SeqsUpTo(RawItems, 1)} \cup {toJS(tr) : tr \in DenseTraces}

StageStrings == {Str(f) : f \in CompressedFields} \cup {Str(DenseText(S)) : S \in DenseSeeds}

StageInputs ==
    StageArrays
    \cup {Obj(tag, p) : tag \in {"parsed", "expanded"}, p \in StageArrays}
    \cup {Obj("compressed", p) : p \in StageStrings}
    \cup OddInputs

\* the calls made on an instance
StageCalls ==
    {<<"getSection", section>> : section \in Sections} \cup {<<"serialize", FALSE>>}

InitStages ==
    /\ pc = "start"
    /\ input = Undefined
    /\ output = Undefined
    /\ trace = <<>>
    /\ wire = Undefined

\* Trace.parse(data) up to the branch taken
Dispatch ==
    /\ pc = "start"
    /\ \E data \in StageInputs :
          /\ input' = data
          /\ IF dispatch(data).ok
             THEN /\ pc' = dispatch(data).value.stage
                  /\ wire' = dispatch(data).value.payload
                  /\ output' = output
             ELSE /\ pc' = "failed"
                  /\ wire' = wire
                  /\ output' = Failure(dispatch(data).error)
    /\ UNCHANGED trace

\* the map over a bare array, which is then handled as a sparse array
Clamp ==
    /\ pc = "bare"
    /\ LET mapped == collect([k \in 1..Len(wire.items) |-> clampItem(wire.items[k])])
       IN  IF mapped.ok
           THEN pc' = "parsed" /\ wire' = Arr(mapped.value) /\ output' = output
           ELSE pc' = "failed" /\ wire' = wire /\ output' = Failure(mapped.error)
    /\ UNCHANGED <<input, trace>>

\* decompress(res.trace)
Decode ==
    /\ pc = "compressed"
    /\ LET decompressed == decompress(wire.s)
       IN  IF decompressed.ok
           THEN pc' = "decoded" /\ wire' = decompressed.value /\ output' = output
           ELSE pc' = "failed" /\ wire' = wire /\ output' = Failure(decompressed.error)
    /\ UNCHANGED <<input, trace>>

\* TraceSchema.parse of an array
Validate ==
    /\ pc \in {"parsed", "expanded"}
    /\ LET checked == TraceSchemaParse(wire)
       IN  IF checked.ok
           THEN /\ pc' = IF pc = "parsed" THEN "validatedParsed" ELSE "validatedExpanded"
                /\ wire' = checked.value
                /\ output' = output
           ELSE pc' = "failed" /\ wire' = wire /\ output' = Failure(checked.error)
    /\ UNCHANGED <<input, trace>>

\* Trace.expand of the array in hand
ExpandStage ==
    /\ expands(pc)
    /\ pc' = "dense"
    /\ wire' = expand(wire)
    /\ UNCHANGED <<input, output, trace>>

\* new Trace of the array in hand, and the return of parse, after which
\* nothing is in hand
ConstructStage ==
    /\ pc = "dense" \/ (pc = "validatedExpanded" /\ ~expands(pc))
    /\ IF newTrace(wire).ok
       THEN /\ pc' = "instance"
            /\ trace' = newTrace(wire).value
            /\ output' = Success(newTrace(wire).value)
       ELSE /\ pc' = "failed"
            /\ trace' = trace
            /\ output' = Failure(newTrace(wire).error)
    /\ wire' = Undefined
    /\ UNCHANGED input

\* a method call on the instance parse returned; wire is the call made and
\* its result
Operate ==
    /\ pc = "instance"
    /\ \E call \in StageCalls :
          /\ wire' = returned(call[1], call[2])
          /\ trace' = pointsAfter(call[1], call[2])
    /\ UNCHANGED <<pc, input, output>>

NextStages ==
    \/ Dispatch
    \/ Clamp
    \/ Decode
    \/ Validate
    \/ ExpandStage
    \/ ConstructStage
    \/ Operate

SpecStages == InitStages /\ [][NextStages]_vars

\* the external representation the data in hand is in
Representation(stage) ==
    CASE stage = "compressed" -> "compressed"
      [] stage \in {"bare", "parsed", "decoded", "validatedParsed"} -> "parsed"
      [] stage \in {"expanded", "validatedExpanded", "dense", "instance"} -> "expanded"
      [] OTHER -> "none"

\* the tag under which the input was given; a bare array counts as 'parsed'
TagOf(data) ==
    IF Denoted(data).ty = "array" THEN "parsed" ELSE Denoted(data).state

\* C16: Trace.parse moves its data only along compressed -> parsed ->
\* expanded or to a failure: a 'compressed' payload is decoded and then
\* expanded, a 'parsed' payload validated and then expanded, an 'expanded'
\* payload validated and stored as it is, without an expansion step; every
\* instance holds GRID_SIZE points, and no call on an instance moves it to
\* another state.
C16_StateMachine ==
    [][ /\ (pc = "compressed") => pc' \in {"decoded", "failed"}
        /\ (Representation(pc) = "parsed" /\ Representation(pc') # "parsed") =>
               \/ pc' = "failed"
               \/ (pc' = "dense" /\ wire' = expand(wire))
        /\ (Representation(pc) = "expanded") => Representation(pc') \in {"expanded", "none"}
        /\ (pc = "validatedExpanded") => pc' \in {"instance", "failed"}
        /\ (pc = "validatedExpanded" /\ pc' = "instance") => trace' = wire
        /\ (pc # "instance" /\ pc' = "instance") =>
               /\ Len(trace') = GRID_SIZE
               /\ output' = Success(trace')
               /\ output' = parse(input')
               /\ TagOf(input') = "compressed" =>
                      trace' = expand(decompress(Denoted(input').trace.s).value)
               /\ (TagOf(input') = "expanded") =>
                      trace' = TraceSchemaParse(Denoted(input').trace).value
        /\ (pc' = "failed") => output' = parse(input')
        /\ (pc = "instance") => (pc' = "instance" /\ trace' = trace /\ output' = output)
        /\ (pc = "failed") => FALSE
      ]_vars

\* a 'compressed' payload of one point has been decoded, expanded and
\* constructed, and a method has been called on the instance
C16_Witness ==
    /\ pc = "instance"
    /\ input = Obj("compressed", Str(F_point))
    /\ Len(trace) = GRID_SIZE
    /\ trace[4] = <<3, Num(0, 506 * (Scale \div Thousand)), Num(0, 999 * (Scale \div Thousand)), Str(<<"a">>)>>
    /\ wire # Undefined
    /\ wire.method = "serialize"

-----------------------------------------------------------------------------
(* Trace.expand of a short input and of the same points in another order.  *)
(* input is the sequence, output its expansion, wire the reordered          *)
(* sequence and trace the expansion of that.                                *)

ReorderPoints ==
    {<<i, Dec(1000), Dec(2000), Str(<<"a">>)>> : i \in {0, 3, GRID_SIZE - 1, GRID_SIZE}}
    \cup {<<i, Dec(1000), Dec(1000), Zero>> : i \in {0, 3, GRID_SIZE - 1, GRID_SIZE}}

ReorderInputs == SeqsUpTo(ReorderPoints, MaxSparse)

InitReorder ==
    /\ pc = "start"
    /\ input = <<>>
    /\ output = <<>>
    /\ trace = <<>>
    /\ wire = <<>>

\* Trace.expand(S) for a short S
ExpandShort ==
    /\ pc = "start"
    /\ \E S \in ReorderInputs :
          /\ input' = S
          /\ output' = expand(S)
    /\ pc' = "expand"
    /\ UNCHANGED <<trace, wire>>

\* Trace.expand of the points of S in another order
ExpandReordered ==
    /\ pc = "expand"
    /\ \E order \in Permutations(1..Len(input)) :
          /\ wire' = [k \in 1..Len(input) |-> input[order[k]]]
          /\ trace' = expand([k \in 1..Len(input) |-> input[order[k]]])
    /\ pc' = "reordered"
    /\ UNCHANGED <<input, output>>

NextReorder == ExpandShort \/ ExpandReordered

SpecReorder == InitReorder /\ [][NextReorder]_vars

\* at every time index that occurs in tr, the result holds the last point
\* of tr with that index
LastOfEachIndex(tr, result) ==
    \A k \in 1..Len(tr) :
        (tr[k][1] \in 0..(GRID_SIZE - 1) /\ \A j \in (k + 1)..Len(tr) : tr[j][1] # tr[k][1]) =>
            result[tr[k][1] + 1] = tr[k]

\* the points of tr with a time index of GRID_SIZE or more have no part in
\* the result
LatePointsDropped(tr, result) ==
    /\ Len(result) = GRID_SIZE
    /\ \A n \in 1..GRID_SIZE : result[n][1] = n - 1
    /\ result = expand(SelectSeq(tr, LAMBDA p : p[1] < GRID_SIZE))

\* the points sharing a time index are in the same order in a and b
SameOrderWithinIndex(a, b) ==
    \A i \in {a[k][1] : k \in 1..Len(a)} :
        SelectSeq(a, LAMBDA p : p[1] = i) = SelectSeq(b, LAMBDA p : p[1] = i)

\* C27 as stated: for a short input the last point of each time index is
\* placed at that index, points at GRID_SIZE or later are dropped, and the
\* same points in any other order expand to the same result.
C27_OrderNeverMatters ==
    (pc = "reordered") =>
        /\ LastOfEachIndex(input, output)
        /\ LatePointsDropped(input, output)
        /\ trace = output

\* C27: for a short input the last point of each time index is placed at
\* that index and points at GRID_SIZE or later are dropped; the same points
\* in another order expand to the same result whenever the points sharing a
\* time index keep their order among themselves.
C27_OrderMattersWithinIndex ==
    (pc = "reordered") =>
        /\ LastOfEachIndex(input, output)
        /\ LastOfEachIndex(wire, trace)
        /\ LatePointsDropped(input, output)
        /\ SameOrderWithinIndex(input, wire) => trace = output

\* two points at time 3 and then the same two points the other way round:
\* each expansion holds the point that came last
C27_Witness ==
    /\ pc = "reordered"
    /\ input = << <<3, Dec(1000), Dec(2000), Str(<<"a">>)>>, <<3, Dec(1000), Dec(1000), Zero>> >>
    /\ wire = << input[2], input[1] >>
    /\ output[4] = input[2]
    /\ trace[4] = input[1]

-----------------------------------------------------------------------------
(* Claims about Trace.convert as called by serialize *)

\* the integer in 0..999 that stands for the coordinate n of the unit
\* interval: 999 for 1, otherwise the first three decimals of n
Quantized(n) ==
    IF n = One THEN MaxCompressed ELSE n.f \div (Scale \div Thousand)

AllIntegral(tr) ==
    \A k \in 1..Len(tr) : IsInteger(tr[k][2]) /\ IsInteger(tr[k][3])

\* C22: for the points serialize hands to it, convert returns for every
\* point the same time index and action with each coordinate quantized to
\* an integer in 0..999 (1 to 999, 0 to 0, any other coordinate to its first
\* three decimals, truncated); it returns the points unchanged only when
\* every coordinate is an integer already.
C22_ConvertQuantizes ==
    (pc \in {"serializeCompressed", "serializeParsed"} /\ SchemaValid(trace)) =>
        LET converted == convert(trace)
        IN  /\ converted.ok
            /\ Len(converted.value) = Len(trace)
            /\ (converted.value = trace) => AllIntegral(trace)
            /\ ~AllIntegral(trace) =>
                   \A k \in 1..Len(trace) :
                       converted.value[k] =
                           <<trace[k][1], Int0(Quantized(trace[k][2])),
                             Int0(Quantized(trace[k][3])), trace[k][4]>>

-----------------------------------------------------------------------------
(* velocityHistogram on a velocity series.  input is the series, in         *)
(* hundredths, wire the number of bins and output the histogram.            *)

\* a series holds 1..MaxSeries velocities and is put into 1..MaxSeriesBins
\* bins
MaxSeries == 4

MaxSeriesBins == 4

\* 0, 2.5, 5 and 10
SeriesVelocities == {0, 250, 5 * Hundred, 10 * Hundred}

SeriesInputs == SeqsUpTo(SeriesVelocities, MaxSeries) \ {<<>>}

InitSeries ==
    /\ pc = "start"
    /\ input = <<>>
    /\ output = [bins |-> <<>>, labels |-> <<>>]
    /\ trace = <<>>
    /\ wire = 0

\* const m = this.velocityMap()
Measure ==
    /\ pc = "start"
    /\ \E m \in SeriesInputs : input' = m
    /\ pc' = "velocityMap"
    /\ UNCHANGED <<output, trace, wire>>

\* the rest of velocityHistogram(bins)
Histogram ==
    /\ pc = "velocityMap"
    /\ \E bins \in 1..MaxSeriesBins :
          /\ wire' = bins
          /\ output' = histogram(input, bins)
    /\ pc' = "velocityHistogram"
    /\ UNCHANGED <<input, trace>>

NextSeries == Measure \/ Histogram

SpecSeries == InitSeries /\ [][NextSeries]_vars

\* the bucket of velocity v for bucket width w = wn / wd: floor(v / w),
\* but no more than bins - 1
BucketOf(v, wn, wd, bins) ==
    CHOOSE i \in 0..(bins - 1) :
        /\ i * wn <= v * wd
        /\ (i + 1) * wn > v * wd \/ i = bins - 1

-----------------------------------------------------------------------------
(* Claims about the sections of a Trace that Trace.parse returned *)

\* the points of tr, in order, whose time index is in [from, to)
PointsWithin(tr, from, to) ==
    SelectSeq(tr, LAMBDA p : p[1] >= from /\ p[1] < to)

\* C24: on a Trace returned by Trace.parse, getSection('auto'), 'teleop' and
\* 'endgame' return, in order, exactly the points whose time index is in
\* [0, 60), [60, 540) and [540, 600), and any other name returns the empty
\* sequence.
C24_SectionsByTimeIndex ==
    (pc = "instance" /\ wire # Undefined /\ wire.method = "getSection") =>
        wire.result =
            CASE wire.arg = "auto" -> PointsWithin(trace, 0, 60)
              [] wire.arg = "teleop" -> PointsWithin(trace, 60, 540)
              [] wire.arg = "endgame" -> PointsWithin(trace, 540, 600)
              [] OTHER -> <<>>

\* C29: on every Trace the three sections hold 60, 480 and 60 points, share
\* no time index, and make up points[0..599] when concatenated; the 40
\* points behind them are in no section, and the static getSection gives
\* null for each of them, as it does for a time index of 600 or more.
C29_SectionsPartition ==
    (pc = "instance") =>
        LET auto == getSection(trace, "auto")
            teleop == getSection(trace, "teleop")
            endgame == getSection(trace, "endgame")
            times(s) == {s[k][1] : k \in 1..Len(s)}
        IN  /\ Len(auto) = 60 /\ Len(teleop) = 480 /\ Len(endgame) = 60
            /\ times(auto) \cap times(teleop) = {}
            /\ times(auto) \cap times(endgame) = {}
            /\ times(teleop) \cap times(endgame) = {}
            /\ auto \o teleop \o endgame = SubSeq(trace, 1, 600)
            /\ \A k \in 601..GRID_SIZE : getSectionOf(trace[k]) = "null"
            /\ \A k \in 1..600 : getSectionOf(trace[k]) # "null"

-----------------------------------------------------------------------------
(* matchSort of tba.ts.  input is the pair of matches compared and output   *)
(* the number returned.                                                     *)

\* set numbers and match numbers run from 1 to these
MaxSetNumber == 2

MaxMatchNumber == 2

CompLevel == {"qm", "qf", "sf", "f", "pr"}

compLevelOrder(level) ==
    CASE level = "qm" -> 0
      [] level = "qf" -> 1
      [] level = "sf" -> 2
      [] level = "f" -> 3
      [] level = "pr" -> 4

matchSort(a, b) ==
    IF a.comp_level = "sf" /\ b.comp_level = "sf"
    THEN a.set_number - b.set_number
    ELSE LET aOrder == compLevelOrder(a.comp_level)
             bOrder == compLevelOrder(b.comp_level)
         IN  IF aOrder # bOrder THEN aOrder - bOrder
             ELSE a.match_number - b.match_number

TBAMatches ==
    [comp_level : CompLevel, set_number : 1..MaxSetNumber, match_number : 1..MaxMatchNumber]

InitSort ==
    /\ pc = "start"
    /\ input = <<>>
    /\ output = 0
    /\ trace = <<>>
    /\ wire = Undefined

\* matchSort(a, b)
MatchSort ==
    /\ pc = "start"
    /\ \E a \in TBAMatches, b \in TBAMatches :
          /\ input' = <<a, b>>
          /\ output' = matchSort(a, b)
    /\ pc' = "matchSort"
    /\ UNCHANGED <<trace, wire>>

NextSort == MatchSort

SpecSort == InitSort /\ [][NextSort]_vars

\* the place of a level in the order qm, qf, sf, f, pr
LevelRank(level) ==
    CHOOSE n \in 1..5 : <<"qm", "qf", "sf", "f", "pr">>[n] = level

Sign(n) == IF n < 0 THEN -1 ELSE IF n > 0 THEN 1 ELSE 0

\* C26: matchSort orders two matches by competition level in the order qm,
\* qf, sf, f, pr, and two matches of the same level, sf included, by
\* ascending match_number.
C26_LevelThenMatchNumber ==
    (pc = "matchSort") =>
        LET a == input[1]
            b == input[2]
        IN  IF a.comp_level # b.comp_level
            THEN Sign(output) = Sign(LevelRank(a.comp_level) - LevelRank(b.comp_level))
            ELSE Sign(output) = Sign(a.match_number - b.match_number)

-----------------------------------------------------------------------------
(* generateScoutGroups.  A team is its team_number; a match is a record of  *)
(* its comp_level, its match_number and the six team numbers that           *)
(* destructureMatch returns, red1 to blue3.  The team list is a set: its    *)
(* order is lost in teams.sort, and the numbers in it are distinct.  input  *)
(* is the pair of arguments and output what the call returned or threw.     *)

\* the number of matches given
MaxMatches == 3

\* matches.filter(m => m.comp_level === 'qm').sort by match_number
qualification(matches) ==
    SortSeq(SelectSeq(matches, LAMBDA m : m.comp_level = "qm"),
            LAMBDA a, b : a.match_number < b.match_number)

\* the first loop, from position i of match mi on: a team still in tempTeams
\* is pushed to the group of the position it plays at and taken out of
\* tempTeams; the loop over the matches ends when tempTeams is empty
RECURSIVE scoutGroupsFrom(_, _, _, _, _)
scoutGroupsFrom(ms, mi, i, groups, tempTeams) ==
    IF mi > Len(ms) THEN groups
    ELSE IF i > 6
    THEN IF tempTeams = {} THEN groups
         ELSE scoutGroupsFrom(ms, mi + 1, 1, groups, tempTeams)
    ELSE LET team == ms[mi].teams[i]
         IN  IF team \in tempTeams
             THEN scoutGroupsFrom(ms, mi, i + 1,
                                  [groups EXCEPT ![i] = Append(@, team)],
                                  tempTeams \ {team})
             ELSE scoutGroupsFrom(ms, mi, i + 1, groups, tempTeams)

\* the teams of a group that play in match m, in the order of the group
playing(group, m) ==
    SelectSeq(group, LAMBDA t : \E i \in 1..6 : m.teams[i] = t)

\* a second loop that records no conflict
conflictsForgotten(groups, ms) == [mi \in 1..Len(ms) |-> <<>>]

\* conflicts[mi] after scoutLists is computed: group by group, the teams of
\* the group that play in match mi, but for the first
RECURSIVE conflictsUpTo(_, _, _)
conflictsUpTo(groups, m, g) ==
    IF g = 0 THEN <<>>
    ELSE LET teams == playing(groups[g], m)
         IN  conflictsUpTo(groups, m, g - 1) \o (IF teams = <<>> THEN <<>> ELSE Tail(teams))

conflicts(groups, ms) == [mi \in 1..Len(ms) |-> conflictsUpTo(groups, ms[mi], 6)]

\* scoutLists[g][mi] before the last loop: the first team of the group that
\* plays in the match; 0 stands for undefined
scoutLists(groups, ms) ==
    [g \in 1..6 |-> [mi \in 1..Len(ms) |->
        LET teams == playing(groups[g], ms[mi])
        IN  IF teams = <<>> THEN 0 ELSE Head(teams)]]

\* the last loop: scout by scout, an undefined entry for match mi takes
\* conflicts[mi].shift(), which is the entry of conflicts[mi] numbered by
\* the undefined entries of match mi met so far; the loop throws when there
\* is none left
generateScoutGroups(teams, matches) ==
    LET ms == qualification(matches)
        groups == scoutGroupsFrom(ms, 1, 1, [g \in 1..6 |-> <<>>], teams)
        lists == scoutLists(groups, ms)
        left == conflicts(groups, ms)
        undefinedUpTo(g, mi) == Cardinality({h \in 1..g : lists[h][mi] = 0})
        interferences == sumRange([mi \in 1..Len(ms) |-> Len(left[mi])], 1, Len(ms))
    IN  IF \E g \in 1..6, mi \in 1..Len(ms) :
               lists[g][mi] = 0 /\ undefinedUpTo(g, mi) > Len(left[mi])
        THEN Throw("Failed to generate scout groups")
        ELSE Ok([groups |-> groups,
                 matchAssignments |->
                     [g \in 1..6 |-> [mi \in 1..Len(ms) |->
                         IF lists[g][mi] # 0 THEN lists[g][mi]
                         ELSE left[mi][undefinedUpTo(g, mi)]]],
                 interferences |-> interferences])

\* two matches of twelve teams, two matches in which teams of one group
\* meet, and a final
ScoutMatches ==
    { [comp_level |-> "qm", match_number |-> 1, teams |-> <<1, 2, 3, 4, 5, 6>>],
      [comp_level |-> "qm", match_number |-> 2, teams |-> <<7, 8, 9, 10, 11, 12>>],
      [comp_level |-> "qm", match_number |-> 3, teams |-> <<1, 7, 2, 8, 3, 9>>],
      [comp_level |-> "qm", match_number |-> 4, teams |-> <<12, 11, 10, 6, 5, 4>>],
      [comp_level |-> "f", match_number |-> 1, teams |-> <<1, 2, 3, 7, 8, 14>>] }

\* every team that plays and one that does not; the teams that play; a list
\* in which team 12 is missing
ScoutTeams == {1..13, 1..12, 1..11}

InitScout ==
    /\ pc = "start"
    /\ input = <<>>
    /\ output = Undefined
    /\ trace = <<>>
    /\ wire = Undefined

\* generateScoutGroups(teams, matches)
GenerateScoutGroups ==
    /\ pc = "start"
    /\ \E teams \in ScoutTeams, matches \in SeqsUpTo(ScoutMatches, MaxMatches) :
          /\ input' = [teams |-> teams, matches |-> matches]
          /\ output' = generateScoutGroups(teams, matches)
    /\ pc' = "generateScoutGroups"
    /\ UNCHANGED <<trace, wire>>

NextScout == GenerateScoutGroups

SpecScout == InitScout /\ [][NextScout]_vars

\* the qualification matches given, in the order of their match numbers
QualificationMatches(matches) ==
    LET qm == {k \in 1..Len(matches) : matches[k].comp_level = "qm"}
        numbers == {matches[k].match_number : k \in qm}
    IN  [n \in 1..Cardinality(qm) |->
            matches[CHOOSE k \in qm :
                       Cardinality({j \in qm :
                           \/ matches[j].match_number < matches[k].match_number
                           \/ (matches[j].match_number = matches[k].match_number /\ j <= k)}) = n]]

\* C25: when the team list holds every team of every qualification match
\* (each match listing six distinct teams), generateScoutGroups does not
\* throw; for every qualification match the six scout positions are given
\* six distinct teams, which are the six teams of the match; and no team is
\* in more than one group, or twice in one.
C25_ScoutGroupsComplete ==
    (/\ pc = "generateScoutGroups"
     /\ \A k \in 1..Len(input.matches) :
           input.matches[k].comp_level = "qm" =>
               \A i \in 1..6 : input.matches[k].teams[i] \in input.teams) =>
        LET ms == QualificationMatches(input.matches)
        IN  /\ output.ok
            /\ \A g \in 1..6 : Len(output.value.matchAssignments[g]) = Len(ms)
            /\ \A mi \in 1..Len(ms) :
                  LET scouted == {output.value.matchAssignments[g][mi] : g \in 1..6}
                  IN  /\ Cardinality(scouted) = 6
                      /\ scouted = {ms[mi].teams[i] : i \in 1..6}
            /\ \A g, h \in 1..6 :
                  \A k \in 1..Len(output.value.groups[g]), j \in 1..Len(output.value.groups[h]) :
                      (output.value.groups[g][k] = output.value.groups[h][j]) => (g = h /\ k = j)

\* matches 1 and 2 put teams 1 and 7 in the first group, 2 and 8 in the
\* second, 3 and 9 in the third; in match 3 they meet, and the groups that
\* have no team in match 3 take 7, 8 and 9
C25_Witness ==
    /\ pc = "generateScoutGroups"
    /\ input.teams = 1..13
    /\ Len(input.matches) = 3
    /\ input.matches[1].teams = <<1, 7, 2, 8, 3, 9>>
    /\ input.matches[2].teams = <<7, 8, 9, 10, 11, 12>>
    /\ input.matches[3].teams = <<1, 2, 3, 4, 5, 6>>
    /\ output.ok
    /\ output.value.groups[1] = <<1, 7>>
    /\ output.value.interferences = 3
    /\ [g \in 1..6 |-> output.value.matchAssignments[g][3]] = <<1, 2, 3, 7, 8, 9>>

-----------------------------------------------------------------------------
(* YearInfo2024.parse.  isInside belongs to the package math/polygon; what  *)
(* it returns for the last point and the stage of the robot's alliance is   *)
(* an input, parked.  input is the pair of the points of the trace and      *)
(* parked, output the score breakdown returned.                             *)

\* a trace is given at most MaxScored points with an action
MaxScored == 2

scoreBreakdown2024 ==
    [auto |-> [spk |-> 5, amp |-> 2],
     teleop |-> [spk |-> 2, lob |-> 0, amp |-> 1],
     endgame |-> [clb |-> 3, park |-> 2, trp |-> 5]]

Action(text) == Str(text)

\* the number of points with the action named that lie in the part of the
\* match told by early (p[0] <= 65 or not): the loop over trace.points adds
\* the same value for each of them
count(points, early, text) ==
    Cardinality({k \in 1..Len(points) :
                    (points[k][1] <= 65) = early /\ points[k][4] = Action(text)})

\* parse(trace) for a trace that has points
parse2024(points, parked) ==
    LET autoSpk == scoreBreakdown2024.auto.spk * count(points, TRUE, <<"s", "p", "k">>)
        autoAmp == scoreBreakdown2024.auto.amp * count(points, TRUE, <<"a", "m", "p">>)
        teleopSpk == scoreBreakdown2024.teleop.spk * count(points, FALSE, <<"s", "p", "k">>)
        teleopAmp == scoreBreakdown2024.teleop.amp * count(points, FALSE, <<"a", "m", "p">>)
        teleopLob == scoreBreakdown2024.teleop.lob * count(points, FALSE, <<"l", "o", "b">>)
        clb == scoreBreakdown2024.endgame.clb * count(points, FALSE, <<"c", "l", "b">>)
        trp == scoreBreakdown2024.endgame.trp * count(points, FALSE, <<"t", "r", "p">>)
        noClimb == \A k \in 1..Len(points) : points[k][4] # Action(<<"c", "l", "b">>)
        park == IF noClimb /\ Len(points) # 0 /\ parked
                THEN scoreBreakdown2024.endgame.park ELSE 0
        autoTotal == autoSpk + autoAmp
        teleopTotal == teleopSpk + teleopAmp
        endgameTotal == clb + park
    IN  [auto |-> [spk |-> autoSpk, amp |-> autoAmp, lob |-> 0, total |-> autoTotal],
         teleop |-> [spk |-> teleopSpk, amp |-> teleopAmp, lob |-> teleopLob,
                     total |-> teleopTotal],
         endgame |-> [clb |-> clb, park |-> park, trp |-> trp, total |-> endgameTotal],
         total |-> autoTotal + teleopTotal + endgameTotal]

ScoredPoints ==
    {<<i, Dec(5000), Dec(5000), Action(text)>> :
        i \in {10, 300, 590},
        text \in {<<"s", "p", "k">>, <<"a", "m", "p">>, <<"l", "o", "b">>,
                  <<"c", "l", "b">>, <<"t", "r", "p">>}}

ScoredTraces == {fill(S) : S \in SeqsUpTo(ScoredPoints, MaxScored)}

InitScore ==
    /\ pc = "start"
    /\ input = <<>>
    /\ output = Undefined
    /\ trace = <<>>
    /\ wire = Undefined

\* yearInfo.parse(trace)
ParseScore ==
    /\ pc = "start"
    /\ \E points \in ScoredTraces, parked \in BOOLEAN :
          /\ input' = [points |-> points, parked |-> parked]
          /\ trace' = points
          /\ output' = parse2024(points, parked)
    /\ pc' = "parse2024"
    /\ UNCHANGED wire

NextScore == ParseScore

SpecScore == InitScore /\ [][NextScore]_vars

\* C30: in the score breakdown each section total is the sum of the scores
\* of the section's actions, endgame.total = clb + park + trp among them,
\* and total is the sum of the three section totals.
C30_TotalsAddUp ==
    (pc = "parse2024") =>
        /\ output.auto.total = output.auto.spk + output.auto.amp + output.auto.lob
        /\ output.teleop.total = output.teleop.spk + output.teleop.amp + output.teleop.lob
        /\ output.endgame.total = output.endgame.clb + output.endgame.park + output.endgame.trp
        /\ output.total = output.auto.total + output.teleop.total + output.endgame.total

-----------------------------------------------------------------------------
(* Claims about serializing a second time *)

\* C28: for every Trace T whose serialize(true) succeeds, parsing the string
\* succeeds with a Trace whose serialize(true) returns the same string.
C28_SerializeStable ==
    (pc = "reparseCompressed") =>
        /\ output.result = "ok"
        /\ serialize(output.value, TRUE) = wire

=============================================================================
